---- MODULE Spec2Model ----
(***************************************************************************)
(* Content-defined chunking with a Gear rolling hash and dedup grouping:   *)
(* a model of chunk_bytes_cdc and make_gear_table of                       *)
(* src/backup/cdc_chunker.rs.                                              *)
(*                                                                         *)
(* A u32 is kept as the pair <<hi, lo>> of its 16-bit halves, so that all  *)
(* 32-bit wrap-around arithmetic of the code is computed exactly.          *)
(***************************************************************************)
EXTENDS Integers, Sequences, FiniteSets, TLC

VARIABLES pc, data, min_chunk_size, target_avg_chunk_size, max_chunk_size,
          boundary_bitmask, i, chunk_start_index, rolling_hash, chunks, chunk_map

vars == <<pc, data, min_chunk_size, target_avg_chunk_size, max_chunk_size,
          boundary_bitmask, i, chunk_start_index, rolling_hash, chunks, chunk_map>>

(***************************************************************************)
(* Bounds of the checked inputs.                                           *)
(***************************************************************************)
\* longest input byte sequence
MaxLen == 6
\* largest value of min / avg / max chunk size
MaxSize == 4
\* longest inserted or deleted span of an edit
MaxSpan == 1
\* the byte values inputs are drawn from: 'A' and 'B'
Bytes == {65, 66}

(***************************************************************************)
(* u32 arithmetic on <<hi, lo>>.                                           *)
(***************************************************************************)
Half == 65536

ToU32(n) == <<(n \div Half) % Half, n % Half>>

U32Zero == <<0, 0>>

U32One == <<0, 1>>

\* u32::wrapping_add
WrappingAdd(x, y) ==
    LET lo == x[2] + y[2]
    IN  <<(x[1] + y[1] + (lo \div Half)) % Half, lo % Half>>

\* u32 subtraction x - y for x >= y
U32Sub(x, y) ==
    LET borrow == IF x[2] < y[2] THEN 1 ELSE 0
    IN  <<(x[1] - y[1] - borrow + Half) % Half, (x[2] - y[2] + Half) % Half>>

Shl1(x) == <<(x[1] * 2 + (x[2] \div 32768)) % Half, (x[2] * 2) % Half>>

RECURSIVE ShlN(_, _)
ShlN(x, s) == IF s = 0 THEN x ELSE ShlN(Shl1(x), s - 1)

\* u32::wrapping_shl: the shift amount is taken modulo 32
WrappingShl(x, s) == ShlN(x, s % 32)

\* the 32-bit product of two 16-bit halves, as <<hi, lo>>
Mul16(a, b) ==
    LET t1 == a * (b % 256)
        t2 == a * (b \div 256)
        low == t1 + (t2 % 256) * 256
    IN  <<((low \div Half) + (t2 \div 256)) % Half, low % Half>>

\* u32::wrapping_mul
WrappingMul(x, y) ==
    LET ll == Mul16(x[2], y[2])
        hl == Mul16(x[1], y[2])
        lh == Mul16(x[2], y[1])
    IN  <<(ll[1] + hl[2] + lh[2]) % Half, ll[2]>>

RECURSIVE Xor16(_, _)
Xor16(a, b) ==
    IF a = 0 THEN b
    ELSE IF b = 0 THEN a
    ELSE ((a + b) % 2) + 2 * Xor16(a \div 2, b \div 2)

RECURSIVE And16(_, _)
And16(a, b) ==
    IF a = 0 \/ b = 0 THEN 0
    ELSE ((a % 2) * (b % 2)) + 2 * And16(a \div 2, b \div 2)

\* x ^ y
BitXor(x, y) == <<Xor16(x[1], y[1]), Xor16(x[2], y[2])>>

\* x & y
BitAnd(x, y) == <<And16(x[1], y[1]), And16(x[2], y[2])>>

\* x >> 16
Shr16(x) == <<0, x[1]>>

(***************************************************************************)
(* make_gear_table                                                         *)
(***************************************************************************)
LcgSeed == 305419896

LcgMultiplier == 1664525

LcgIncrement == 1013904223

GearTableSize == 256

\* one advance of the generator: x.wrapping_mul(1664525).wrapping_add(1013904223)
LcgNext(x) == WrappingAdd(WrappingMul(x, ToU32(LcgMultiplier)), ToU32(LcgIncrement))

\* the table entry for generator state x: x ^ (x >> 16)
GearEntry(x) == BitXor(x, Shr16(x))

U32 == (0..(Half - 1)) \X (0..(Half - 1))

\* n advances of the generator from state x; the advances are split in two
\* runs so that the evaluation stays shallow
Advance[x \in U32, n \in 0..GearTableSize] ==
    IF n = 0 THEN x
    ELSE IF n = 1 THEN LcgNext(x)
    ELSE Advance[Advance[x, n \div 2], n - (n \div 2)]

make_gear_table == [b \in 0..(GearTableSize - 1) |-> GearEntry(Advance[ToU32(LcgSeed), b + 1])]

byte_to_random == make_gear_table

(***************************************************************************)
(* chunk_id_hash                                                           *)
(***************************************************************************)
HexDigits == <<"0", "1", "2", "3", "4", "5", "6", "7",
               "8", "9", "a", "b", "c", "d", "e", "f">>

\* the digest of a chunk.  blake3 is taken as an ideal collision-free hash:
\* the digest of a byte sequence stands for exactly that byte sequence.
Blake3Digest(chunk) == chunk

\* Hash::to_hex: two lower-case hex digits per digest byte
ToHex(bytes) ==
    [k \in 1..(2 * Len(bytes)) |->
        LET byte == bytes[(k + 1) \div 2]
        IN  IF k % 2 = 1 THEN HexDigits[(byte \div 16) + 1]
            ELSE HexDigits[(byte % 16) + 1]]

chunk_id_hash(chunk) == ToHex(Blake3Digest(chunk))

(***************************************************************************)
(* chunk_bytes_cdc: the pieces of the function                             *)
(***************************************************************************)
\* variant: the min > 0 assert left out
ParamsOk_NoZeroCheck(mn, av, mx) == mn <= av /\ av <= mx

\* the two assert!s at the head of the function
ParamsOk(mn, av, mx) == mn > 0 /\ (mn <= av /\ av <= mx)

RECURSIVE Pow2(_)
Pow2(k) == IF k = 0 THEN 1 ELSE 2 * Pow2(k - 1)

\* (target_avg_chunk_size as f64).log2().round(): the b with
\* 2^(b - 1/2) <= av < 2^(b + 1/2), i.e. 2^(2b) <= 2 * av^2 < 2^(2b + 2)
\* (log2(0) is -infinity, which rounds to itself and is below every clamp
\* bound: -1 stands for it; the search covers av < 2^14, beyond every size
\* used here)
RoundedBits(av) ==
    IF av = 0 THEN 0 - 1
    ELSE CHOOSE b \in 0..14 :
             Pow2(2 * b) <= 2 * av * av /\ 2 * av * av < Pow2(2 * b + 2)

Clamp(v, lo, hi) == IF v < lo THEN lo ELSE IF v > hi THEN hi ELSE v

BoundaryBits(av) == Clamp(RoundedBits(av), 1, 31)

\* (1u32 << boundary_bits) - 1
BoundaryBitmask(bits) == U32Sub(WrappingShl(U32One, bits), U32One)

\* variant: the shift left out of the update
GearUpdate_NoShift(h, byte) == WrappingAdd(h, byte_to_random[byte])

\* rolling_hash.wrapping_shl(1).wrapping_add(byte_to_random[byte])
GearUpdate(h, byte) == WrappingAdd(WrappingShl(h, 1), byte_to_random[byte])

\* variant: the length measured from the start of the input
CurrentChunkLen_Absolute(idx, start) == idx + 1

\* i + 1 - chunk_start_index
CurrentChunkLen(idx, start) == idx + 1 - start

\* variant: <= for <
BelowMin_Inclusive(len, mn) == len <= mn

\* Rule 1: current_chunk_len < min_chunk_size
BelowMin(len, mn) == len < mn

\* Rule 2: (rolling_hash & boundary_bitmask) == 0
BoundaryPatternHit(h, mask) == BitAnd(h, mask) = U32Zero

\* variant: > for >=
ForcedCut_Strict(len, mx) == len > mx

\* Rule 3: current_chunk_len >= max_chunk_size
ForcedCut(len, mx) == len >= mx

\* variant: the exclusive range data[chunk_start_index..i]
CutSlice_Exclusive(d, start, idx) == SubSeq(d, start + 1, idx)

\* data[chunk_start_index..=i].to_vec()
CutSlice(d, start, idx) == SubSeq(d, start + 1, idx + 1)

\* data[chunk_start_index..].to_vec()
TailSlice(d, start) == SubSeq(d, start + 1, Len(d))

\* variant: chunk_map.insert(key, vec![value]), replacing the bucket
MapPush_Overwrite(map, key, value) ==
    [k \in (DOMAIN map) \cup {key} |-> IF k = key THEN <<value>> ELSE map[k]]

\* chunk_map.entry(key).or_insert_with(Vec::new).push(value)
MapPush(map, key, value) ==
    IF key \in DOMAIN map
    THEN [map EXCEPT ![key] = Append(@, value)]
    ELSE (key :> <<value>>) @@ map

\* variant: the hash not reset at a cut
HashAfterCut_Keep(h) == h

\* the rolling hash a new chunk starts with
HashAfterCut(h) == U32Zero

\* variant: <= for <
TailPending_Inclusive(start, len) == start <= len

\* chunk_start_index < data.len()
TailPending(start, len) == start < len

\* the mutable locals of one call
ScanState(start, h, cs, map) ==
    [chunk_start_index |-> start, rolling_hash |-> h, chunks |-> cs, chunk_map |-> map]

EmptyMap == <<>>

InitialScanState == ScanState(0, U32Zero, <<>>, EmptyMap)

\* the immutable locals of one call
Locals(d, mn, av, mx) ==
    [data |-> d, min_chunk_size |-> mn, max_chunk_size |-> mx,
     boundary_bitmask |-> BoundaryBitmask(BoundaryBits(av))]

\* chunks.push(tmp_data.clone()); chunk_map.entry(..).or_insert_with(..).push(tmp_data)
EmitChunk(st, tmp_data) ==
    [st EXCEPT !.chunks = Append(@, tmp_data),
               !.chunk_map = MapPush(@, chunk_id_hash(tmp_data), tmp_data)]

\* one iteration of the for loop, for the byte at index idx
LoopBody(st, p, idx) ==
    LET byte == p.data[idx + 1]
        h == GearUpdate(st.rolling_hash, byte)
        current_chunk_len == CurrentChunkLen(idx, st.chunk_start_index)
    IN  IF BelowMin(current_chunk_len, p.min_chunk_size)
        THEN [st EXCEPT !.rolling_hash = h]
        ELSE IF BoundaryPatternHit(h, p.boundary_bitmask)
                \/ ForcedCut(current_chunk_len, p.max_chunk_size)
             THEN [EmitChunk(st, CutSlice(p.data, st.chunk_start_index, idx))
                     EXCEPT !.chunk_start_index = idx + 1,
                            !.rolling_hash = HashAfterCut(h)]
             ELSE [st EXCEPT !.rolling_hash = h]

\* variant: a tail shorter than min is appended to the chunk before it
TailStep_MergeShort(st, p) ==
    LET tail == TailSlice(p.data, st.chunk_start_index)
        n == Len(st.chunks)
    IN  IF ~TailPending(st.chunk_start_index, Len(p.data)) THEN st
        ELSE IF Len(tail) < p.min_chunk_size /\ n > 0
             THEN [st EXCEPT !.chunks = [@ EXCEPT ![n] = @ \o tail],
                             !.chunk_map = MapPush(@, chunk_id_hash(st.chunks[n] \o tail),
                                                   st.chunks[n] \o tail)]
             ELSE EmitChunk(st, tail)

\* the tail chunk after the loop
TailStep(st, p) ==
    IF TailPending(st.chunk_start_index, Len(p.data))
    THEN EmitChunk(st, TailSlice(p.data, st.chunk_start_index))
    ELSE st

\* the for loop from index idx on
RECURSIVE ScanFrom(_, _, _)
ScanFrom(st, p, idx) ==
    IF idx >= Len(p.data) THEN st
    ELSE ScanFrom(LoopBody(st, p, idx), p, idx + 1)

\* the whole call as a function of its arguments
ChunkBytesCdc(d, mn, av, mx) ==
    IF ~ParamsOk(mn, av, mx)
    THEN [panicked |-> TRUE, chunks |-> <<>>, chunk_map |-> EmptyMap]
    ELSE LET p == Locals(d, mn, av, mx)
             st == TailStep(ScanFrom(InitialScanState, p, 0), p)
         IN  [panicked |-> FALSE, chunks |-> st.chunks, chunk_map |-> st.chunk_map]

(***************************************************************************)
(* chunk_bytes_cdc as a state machine: one step per loop iteration         *)
(***************************************************************************)
SeqsUpTo(n) == UNION {[1..m -> Bytes] : m \in 0..n}

Sizes == 0..MaxSize

InitWith(d, mn, av, mx) ==
    /\ pc = "entry"
    /\ data = d
    /\ min_chunk_size = mn
    /\ target_avg_chunk_size = av
    /\ max_chunk_size = mx
    /\ boundary_bitmask = U32Zero
    /\ i = 0
    /\ chunk_start_index = 0
    /\ rolling_hash = U32Zero
    /\ chunks = <<>>
    /\ chunk_map = EmptyMap

Init ==
    \E d \in SeqsUpTo(MaxLen) : \E mn \in Sizes, av \in Sizes, mx \in Sizes :
        InitWith(d, mn, av, mx)

CurrentLocals ==
    [data |-> data, min_chunk_size |-> min_chunk_size,
     max_chunk_size |-> max_chunk_size, boundary_bitmask |-> boundary_bitmask]

CurrentScanState == ScanState(chunk_start_index, rolling_hash, chunks, chunk_map)

\* the asserts and the set-up before the loop
Enter ==
    /\ pc = "entry"
    /\ IF ParamsOk(min_chunk_size, target_avg_chunk_size, max_chunk_size)
       THEN /\ pc' = "scan"
            /\ boundary_bitmask' = BoundaryBitmask(BoundaryBits(target_avg_chunk_size))
       ELSE /\ pc' = "panicked"
            /\ UNCHANGED boundary_bitmask
    /\ UNCHANGED <<data, min_chunk_size, target_avg_chunk_size, max_chunk_size,
                   i, chunk_start_index, rolling_hash, chunks, chunk_map>>

\* one iteration of the loop
ScanByte ==
    /\ pc = "scan"
    /\ i < Len(data)
    /\ LET st == LoopBody(CurrentScanState, CurrentLocals, i)
       IN  /\ chunk_start_index' = st.chunk_start_index
           /\ rolling_hash' = st.rolling_hash
           /\ chunks' = st.chunks
           /\ chunk_map' = st.chunk_map
    /\ i' = i + 1
    /\ UNCHANGED <<pc, data, min_chunk_size, target_avg_chunk_size, max_chunk_size,
                   boundary_bitmask>>

\* the tail chunk and the return
EmitTail ==
    /\ pc = "scan"
    /\ i >= Len(data)
    /\ LET st == TailStep(CurrentScanState, CurrentLocals)
       IN  /\ chunks' = st.chunks
           /\ chunk_map' = st.chunk_map
    /\ pc' = "done"
    /\ UNCHANGED <<data, min_chunk_size, target_avg_chunk_size, max_chunk_size,
                   boundary_bitmask, i, chunk_start_index, rolling_hash>>

Next == Enter \/ ScanByte \/ EmitTail

Spec == Init /\ [][Next]_vars

\* the constant-byte scenario: 1000 bytes 'A', min = 10, avg = 64, max = 256
InitConst == InitWith([k \in 1..1000 |-> 65], 10, 64, 256)

SpecConst == InitConst /\ [][Next]_vars

(***************************************************************************)
(* Vocabulary of the properties                                            *)
(***************************************************************************)
RECURSIVE Concat(_)
Concat(cs) == IF cs = <<>> THEN <<>> ELSE Head(cs) \o Concat(Tail(cs))

\* the total length of the first k chunks of cs: the k-th boundary
RECURSIVE CutPos(_, _)
CutPos(cs, k) == IF k = 0 THEN 0 ELSE CutPos(cs, k - 1) + Len(cs[k])

Range(s) == {s[k] : k \in DOMAIN s}

RECURSIVE SumOver(_, _)
SumOver(f, S) ==
    IF S = {} THEN 0
    ELSE LET x == CHOOSE y \in S : TRUE IN f[x] + SumOver(f, S \ {x})

ValidPolicy ==
    0 < min_chunk_size /\ min_chunk_size <= target_avg_chunk_size
    /\ target_avg_chunk_size <= max_chunk_size

\* the chunk sequence the code returns for d under the policy of this run
Rechunk(d) ==
    ChunkBytesCdc(d, min_chunk_size, target_avg_chunk_size, max_chunk_size).chunks

Spans == SeqsUpTo(MaxSpan) \ {<<>>}

\* the edits of d strictly inside the byte range of one chunk of cs: a span
\* inserted between two bytes of chunk k, or a span deleted from chunk k that
\* leaves its first and its last byte in place
Insertions(d, cs) ==
    {[k |-> k, data |-> SubSeq(d, 1, at) \o s \o SubSeq(d, at + 1, Len(d)),
      delta |-> Len(s)] :
        <<k, at, s>> \in {t \in (1..Len(cs)) \X (1..Len(d)) \X Spans :
                             CutPos(cs, t[1] - 1) < t[2] /\ t[2] < CutPos(cs, t[1])}}

Deletions(d, cs) ==
    {[k |-> k, data |-> SubSeq(d, 1, from) \o SubSeq(d, from + n + 1, Len(d)),
      delta |-> 0 - n] :
        <<k, from, n>> \in {t \in (1..Len(cs)) \X (1..Len(d)) \X (1..MaxSpan) :
                               CutPos(cs, t[1] - 1) < t[2]
                               /\ t[2] + t[3] < CutPos(cs, t[1])}}

Edits(d, cs) == Insertions(d, cs) \cup Deletions(d, cs)

(***************************************************************************)
(* Properties                                                              *)
(***************************************************************************)

\* C1 (reconstruction): when the call returns, the chunks concatenated in
\* output order are exactly the input: no byte dropped, duplicated or moved.
Reconstruction == pc = "done" => Concat(chunks) = data

ReconstructionWitness ==
    pc = "done" /\ Len(chunks) >= 3 /\ Concat(chunks) = data

\* C2 (bounds): every returned chunk but the last has min <= len <= max, the
\* last has len <= max, and a zero-length chunk occurs only for empty data.
Bounds ==
    pc = "done" =>
        /\ \A k \in 1..(Len(chunks) - 1) :
               min_chunk_size <= Len(chunks[k]) /\ Len(chunks[k]) <= max_chunk_size
        /\ chunks # <<>> => Len(chunks[Len(chunks)]) <= max_chunk_size
        /\ \A k \in 1..Len(chunks) : Len(chunks[k]) = 0 => data = <<>>

\* a run whose tail chunk is shorter than min after a chunk of exactly max
BoundsWitness ==
    /\ pc = "done"
    /\ Len(chunks) >= 2
    /\ Len(chunks[Len(chunks)]) < min_chunk_size
    /\ \E k \in 1..(Len(chunks) - 1) : Len(chunks[k]) = max_chunk_size

\* C3 (configuration error): with min = 0, min > avg or avg > max the call
\* panics at its head: nothing is scanned, no chunk and no map entry exists,
\* and the scan is never entered with repaired values; a policy with
\* 0 < min <= avg <= max never panics.
ConfigError ==
    /\ (min_chunk_size = 0 \/ min_chunk_size > target_avg_chunk_size
          \/ target_avg_chunk_size > max_chunk_size)
       => /\ pc \in {"entry", "panicked"}
          /\ i = 0 /\ chunk_start_index = 0
          /\ chunks = <<>> /\ DOMAIN chunk_map = {}
    /\ ValidPolicy => pc # "panicked"

ConfigErrorWitness ==
    pc = "panicked" /\ min_chunk_size = 0 /\ data # <<>>

\* the buckets of the map that hold chunk c
BucketsOf(c) == {key \in DOMAIN chunk_map : c \in Range(chunk_map[key])}

\* C4 (dedup): when the call returns, every chunk lies in exactly one bucket
\* of the map, the one keyed by its hash; two chunks are equal iff they share
\* a bucket; the bucket sizes sum to the number of chunks.
DedupCorrect ==
    pc = "done" =>
        /\ \A k \in 1..Len(chunks) : BucketsOf(chunks[k]) = {chunk_id_hash(chunks[k])}
        /\ \A a \in 1..Len(chunks), b \in 1..Len(chunks) :
               (chunks[a] = chunks[b])
                   <=> (BucketsOf(chunks[a]) \cap BucketsOf(chunks[b]) # {})
        /\ SumOver([key \in DOMAIN chunk_map |-> Len(chunk_map[key])], DOMAIN chunk_map)
               = Len(chunks)

\* a run with a bucket of two equal chunks beside another bucket
DedupWitness ==
    /\ pc = "done"
    /\ Cardinality(DOMAIN chunk_map) >= 2
    /\ \E key \in DOMAIN chunk_map : Len(chunk_map[key]) >= 2

\* C5 (empty input): under a valid policy the call on empty data does not
\* panic and returns no chunk and an empty map.
EmptyInput ==
    (data = <<>> /\ ValidPolicy) =>
        /\ pc # "panicked"
        /\ pc = "done" => (chunks = <<>> /\ DOMAIN chunk_map = {})

EmptyInputWitness ==
    pc = "done" /\ data = <<>> /\ chunks = <<>> /\ i = 0

\* C6 (prefix stability): when the call returns, for every edit strictly
\* inside chunk k, the chunks before chunk k of the edited input's chunking
\* are the chunks before chunk k of this input's chunking.
PrefixStable ==
    pc = "done" =>
        \A e \in Edits(data, chunks) :
            LET c2 == Rechunk(e.data)
            IN  /\ Len(c2) >= e.k - 1
                /\ SubSeq(c2, 1, e.k - 1) = SubSeq(chunks, 1, e.k - 1)

\* an edit inside a later chunk that changes that chunk and keeps the prefix
PrefixStableWitness ==
    /\ pc = "done"
    /\ \E e \in Edits(data, chunks) :
           LET c2 == Rechunk(e.data)
           IN  /\ e.k >= 2
               /\ Len(c2) >= e.k
               /\ c2[e.k] # chunks[e.k]
               /\ SubSeq(c2, 1, e.k - 1) = SubSeq(chunks, 1, e.k - 1)

\* C7 as stated (re-synchronisation after one chunk): for every edit strictly
\* inside chunk k, the chunks after chunk k + 1 of this input's chunking are,
\* unchanged and in order, the last chunks of the edited input's chunking.
ResyncAfterNextChunk ==
    pc = "done" =>
        \A e \in Edits(data, chunks) :
            LET c2 == Rechunk(e.data)
                later == SubSeq(chunks, e.k + 2, Len(chunks))
            IN  /\ Len(c2) >= Len(later)
                /\ SubSeq(c2, Len(c2) - Len(later) + 1, Len(c2)) = later

\* C7 as amended (re-synchronisation at a common boundary): for every edit
\* strictly inside chunk k and every boundary of this input's chunking at or
\* after the end of chunk k whose position, shifted by the edit's change of
\* length, is a boundary of the edited input's chunking, the chunks after the
\* two boundaries are the same sequence.
ResyncAtCommonCut ==
    pc = "done" =>
        \A e \in Edits(data, chunks) :
            LET c2 == Rechunk(e.data)
            IN  \A j \in e.k..Len(chunks), j2 \in 0..Len(c2) :
                    CutPos(c2, j2) = CutPos(chunks, j) + e.delta
                        => SubSeq(c2, j2 + 1, Len(c2)) = SubSeq(chunks, j + 1, Len(chunks))

\* an edit that changes its chunk and the chunk after it, and after which a
\* later boundary is common and chunks follow it
ResyncWitness ==
    /\ pc = "done"
    /\ \E e \in Edits(data, chunks) :
           LET c2 == Rechunk(e.data)
           IN  \E j \in (e.k + 1)..(Len(chunks) - 1), j2 \in 0..(Len(c2) - 1) :
                   /\ CutPos(c2, j2) = CutPos(chunks, j) + e.delta
                   /\ \A m \in 0..(Len(c2) - 1) :
                          CutPos(c2, m) # CutPos(chunks, e.k) + e.delta
                   /\ SubSeq(c2, j2 + 1, Len(c2)) = SubSeq(chunks, j + 1, Len(chunks))

\* C9 (offset independence): when the call returns, chunking the input from
\* any of its boundaries on gives exactly the chunks after that boundary.
OffsetIndependent ==
    pc = "done" =>
        \A k \in 0..Len(chunks) :
            Rechunk(SubSeq(data, CutPos(chunks, k) + 1, Len(data)))
                = SubSeq(chunks, k + 1, Len(chunks))

\* a run of three chunks or more, the second cut before max by the mask
OffsetIndependentWitness ==
    /\ pc = "done"
    /\ Len(chunks) >= 3
    /\ Len(chunks[2]) < max_chunk_size
    /\ Rechunk(SubSeq(data, CutPos(chunks, 1) + 1, Len(data)))
           = SubSeq(chunks, 2, Len(chunks))

\* the hash of the bytes at indices from..to, from the hash 0: the sum of
\* GearTable[byte] * 2^(to - index) modulo 2^32
RECURSIVE WindowHash(_, _, _)
WindowHash(d, from, to) ==
    IF to < from THEN U32Zero
    ELSE WrappingAdd(ShlN(make_gear_table[d[from + 1]], to - from),
                     WindowHash(d, from + 1, to))

\* the low `bits` bits of h are all zero
LowBitsZero(h, bits) ==
    IF bits <= 16 THEN h[2] % Pow2(bits) = 0
    ELSE h[2] = 0 /\ h[1] % Pow2(bits - 16) = 0

\* the boundaries the loop has placed so far
CutsSoFar == {CutPos(chunks, k) : k \in 1..Len(chunks)}

\* the start of the chunk that index j belongs to
ChunkStartOf(j) ==
    LET before == {c \in CutsSoFar : c <= j}
    IN  IF before = {} THEN 0 ELSE CHOOSE c \in before : \A c2 \in before : c2 <= c

CutCondition(j) ==
    LET len == j + 1 - ChunkStartOf(j)
        h == WindowHash(data, ChunkStartOf(j), j)
    IN  /\ len >= min_chunk_size
        /\ \/ LowBitsZero(h, BoundaryBits(target_avg_chunk_size))
           \/ len >= max_chunk_size

\* C10 (cut rule): during the scan, a boundary stands after a scanned index j
\* iff the length since the chunk's start is at least min and the hash of the
\* bytes since the chunk's start has its low bits zero or the length is at
\* least max; the rolling hash is the hash of the bytes since the last cut.
CutRule ==
    pc = "scan" =>
        /\ \A j \in 0..(i - 1) : ((j + 1) \in CutsSoFar) <=> CutCondition(j)
        /\ rolling_hash = WindowHash(data, chunk_start_index, i - 1)

\* a scan that saw a mask hit below min (no cut), a cut by the mask before
\* max, and a forced cut without a mask hit
CutRuleWitness ==
    /\ pc = "scan"
    /\ \E j \in 0..(i - 1) :
           /\ j + 1 - ChunkStartOf(j) < min_chunk_size
           /\ LowBitsZero(WindowHash(data, ChunkStartOf(j), j),
                          BoundaryBits(target_avg_chunk_size))
           /\ (j + 1) \notin CutsSoFar
    /\ \E j \in 0..(i - 1) :
           /\ (j + 1) \in CutsSoFar
           /\ j + 1 - ChunkStartOf(j) < max_chunk_size
    /\ \E j \in 0..(i - 1) :
           /\ (j + 1) \in CutsSoFar
           /\ ~LowBitsZero(WindowHash(data, ChunkStartOf(j), j),
                           BoundaryBits(target_avg_chunk_size))

\* C8 (constant-byte scenario): on 1000 bytes 'A' with min = 10, avg = 64,
\* max = 256, every boundary the loop places is a forced cut at length 256;
\* the returned chunks have lengths 256 except possibly the last, none is
\* longer than 256, and the lengths sum to 1000.
ConstantByteScenario ==
    (/\ data = [k \in 1..1000 |-> 65]
     /\ min_chunk_size = 10 /\ target_avg_chunk_size = 64 /\ max_chunk_size = 256)
    => /\ pc = "scan" => \A k \in 1..Len(chunks) : Len(chunks[k]) = 256
       /\ pc = "done" =>
              /\ \A k \in 1..(Len(chunks) - 1) : Len(chunks[k]) = 256
              /\ \A k \in 1..Len(chunks) : Len(chunks[k]) <= 256
              /\ CutPos(chunks, Len(chunks)) = 1000

ConstantByteWitness ==
    /\ pc = "done"
    /\ Len(data) = 1000
    /\ Len(chunks) = 4
    /\ Len(chunks[4]) = 232

====
